---------------------------- MODULE Spec2Model ----------------------------
(***************************************************************************)
(* Reliable file transfer over UDP: the fixed-window sender                *)
(* (part1/p1_server.py), the CUBIC sender (part2/p2_server.py) and the     *)
(* receiver (part2/p2_client.py), joined by two datagram channels that     *)
(* lose, duplicate, reorder and delay.                                     *)
(*                                                                         *)
(* Conventions of the model                                                *)
(*  - A byte string is a record [len, id]: its length and its content.     *)
(*    Two byte strings are equal iff both fields are.                      *)
(*  - A datagram is a record [len, words, data]: its total length, the     *)
(*    five big-endian 32-bit words of its 20-byte header (empty when the   *)
(*    datagram is shorter than a header) and the bytes after the header.   *)
(*  - Python's None is the integer NONE.                                   *)
(*  - Wall-clock readings (time.time()) are inputs.  send_times is kept as *)
(*    the list of its keys in increasing order of their timestamps; the    *)
(*    test `now - send_t > rto` is decided by a cut of that list chosen by *)
(*    the environment (everything sent at or before some instant is        *)
(*    expired).  The RTT estimator's arithmetic is not modelled: a sample  *)
(*    is recorded as <<seq, transmissions of seq so far>>.                 *)
(*  - cwnd is the integer part of the program's float cwnd (all the        *)
(*    program's comparisons of cwnd are against integers).  The clock      *)
(*    reading of cubic_update is one of three instants of the epoch.       *)
(*  - tx_count, rtt_samples, inflations, frx_cum, sev and rev are history  *)
(*    variables: they record what the last step did and bound the run.     *)
(*                                                                         *)
(* Four specifications: Spec is a whole session of one sender and the      *)
(* receiver; SenderSpec runs a sender alone against arbitrary datagrams;   *)
(* ReceiverSpec runs the receiver alone against a session's datagrams in   *)
(* any order; CodecSpec runs create_ack and parse_ack back to back.        *)
(*                                                                         *)
(* Limits: duplicate ACKs are followed up to MaxDup in a row, which is     *)
(* below RECOVERY_SWEEP_PERIOD, so the in-recovery sweep of p2_server.py   *)
(* is modelled but never runs.                                             *)
(***************************************************************************)
EXTENDS Integers, Sequences, FiniteSets, TLC

\* ------------------------------------------------------------ bounds
MaxSegs == 2
SessionSegs == 1
MaxNet == 1
MaxDup == 7
MaxTx == 2
MaxTxFixed == 3
MaxInflate == 7

\* ------------------------------------------------- program constants
MAX_PAYLOAD_SIZE == 1200
HEADER_SIZE == 20
DATA_SIZE == MAX_PAYLOAD_SIZE - HEADER_SIZE
SEQ_NUM_SIZE == 4
RESERVED_SIZE == 16
MAX_REQUEST_RETRIES == 5
P1_MAX_EOF_RETRIES == 10
P2_EOF_ATTEMPTS == 5
DUP_ACK_THRESHOLD == 3
RECOVERY_SWEEP_PERIOD == 100
CWND_FLOOR_MSS == 10
MAX_CWND == 10000
WMAX_INITIAL_MSS == 200
C_CUBIC == 10000
NONE == 0 - 2

EOF_MARKER == [len |-> 3, id |-> "EOF"]
READY_MARKER == [len |-> 3, id |-> "ACK"]
NoBytes == [len |-> 0, id |-> ""]

\* ------------------------------------------------------------ helpers
Min(S) == CHOOSE x \in S : \A y \in S : x <= y
MinOf(a, b) == IF a <= b THEN a ELSE b
MaxOf(a, b) == IF a >= b THEN a ELSE b
Range(s) == {s[i] : i \in 1..Len(s)}

\* sorted(S) for a finite set of integers
RECURSIVE Sorted(_)
Sorted(S) == IF S = {} THEN << >> ELSE <<Min(S)>> \o Sorted(S \ {Min(S)})

\* ------------------------------------------------------------ the file
\* The chunking loop cuts the file into chunks of DATA_SIZE bytes, the last
\* one possibly shorter; a file is given here by its chunks.
FullChunk(i) == [len |-> DATA_SIZE, id |-> <<"A", "B", "C", "D", "E">>[i]]
TailChunks == {EOF_MARKER, [len |-> 140, id |-> "T"]}
Files(most) ==
  {f \in UNION {[1..n -> {FullChunk(i) : i \in 1..most} \cup TailChunks] : n \in 0..most} :
     /\ \A i \in 1..Len(f) : i < Len(f) => f[i] = FullChunk(i)
     /\ Len(f) > 0 => f[Len(f)] \in {FullChunk(Len(f))} \cup TailChunks}
SWS_Choices == {1, DATA_SIZE, 2 * DATA_SIZE}

\* ------------------------------------------------------------ wire codec
\* create_packet: seq(4) | zeros(16) | payload
create_packet(seq_num, data) ==
  [len |-> SEQ_NUM_SIZE + RESERVED_SIZE + data.len,
   words |-> <<seq_num, 0, 0, 0, 0>>, data |-> data]

\* The receiver's create_ack: cum_ack(4) | s1 e1 s2 e2, at most two blocks,
\* padded with zero words.
AckWords(blocks) ==
  LET two == SubSeq(blocks, 1, MinOf(2, Len(blocks)))
      w(i) == IF i <= Len(two) THEN <<two[i][1], two[i][2]>> ELSE <<0, 0>>
  IN  w(1) \o w(2)
create_ack(next_expected, sack_blocks) ==
  [len |-> SEQ_NUM_SIZE + RESERVED_SIZE,
   words |-> <<next_expected>> \o AckWords(sack_blocks), data |-> NoBytes]

\* ParseBlocks skipping a slot as soon as one of its two words is zero
ParseBlocks_SkipAnyZero(w) ==
  (IF w[2] = 0 \/ w[3] = 0 THEN << >> ELSE << <<w[2], w[3]>> >>) \o
  (IF w[4] = 0 \/ w[5] = 0 THEN << >> ELSE << <<w[4], w[5]>> >>)
\* The senders' parse_ack: <<cum_ack, blocks>>; a zero pair is skipped.
ParseBlocks(w) ==
  (IF w[2] = 0 /\ w[3] = 0 THEN << >> ELSE << <<w[2], w[3]>> >>) \o
  (IF w[4] = 0 /\ w[5] = 0 THEN << >> ELSE << <<w[4], w[5]>> >>)
parse_ack(ack_packet) ==
  IF ack_packet.len < SEQ_NUM_SIZE + RESERVED_SIZE
  THEN <<NONE, << >> >>
  ELSE <<ack_packet.words[1], ParseBlocks(ack_packet.words)>>

\* The receiver's parse_packet: <<seq, data>>
parse_packet(packet) ==
  IF packet.len < HEADER_SIZE THEN <<NONE, NoBytes>>
  ELSE <<packet.words[1], packet.data>>

REQUEST == [len |-> 1, words |-> << >>, data |-> NoBytes]

\* ------------------------------------------------------------ state
VARIABLES
  cap_s2c, cap_c2s,   \* datagrams each channel can hold in flight
  variant,            \* "fixed" (p1_server) or "cubic" (p2_server)
  window_size,        \* SWS of the fixed-window sender
  packets,            \* the file's chunks; packets[seq + 1] is segment seq
  spc,                \* the sender's position
  next_seq, sent_once, unacked, send_times, bytes_in_flight,
  last_cum_ack, dup_ack_count,
  cwnd, Wmax, epoch_start, in_recovery, congestion_last_sent,
  retries,            \* EOF phase: retries (fixed) / loop index i (cubic)
  tx_count,           \* history: transmissions of each segment, up to MaxTx
  rtt_samples,        \* history: <<seq, tx_count>> of the RTT samples the last ACK fed
  inflations,         \* history: executions of cwnd += DATA_SIZE, up to MaxInflate
  frx_cum,            \* history (fixed sender): the cum_ack whose duplicates caused the
                      \* latest fast retransmit, while no other cum_ack has been seen
  sev,                \* history: what the sender's last step did
  cpc,                \* the receiver's position
  attempt,            \* send_request: the attempt number
  receive_buffer, received_seqs, next_expected_seq, received_data,
  last_received_seq,
  rev,                \* history: what the receiver's last step did
  net_s2c, net_c2s    \* datagrams in flight in each direction

sender_vars == <<spc, next_seq, sent_once, unacked, send_times, bytes_in_flight,
                 last_cum_ack, dup_ack_count, cwnd, Wmax, epoch_start,
                 in_recovery, congestion_last_sent, retries, tx_count,
                 rtt_samples, inflations, frx_cum, sev>>
receiver_vars == <<cpc, attempt, receive_buffer, received_seqs,
                   next_expected_seq, received_data, last_received_seq, rev>>
config_vars == <<variant, window_size, packets, cap_s2c, cap_c2s>>
vars == <<config_vars, sender_vars, receiver_vars, net_s2c, net_c2s>>

total_packets == Len(packets)
packet_bytes(seq) == packets[seq + 1].len
Segs == 0..(total_packets - 1)

RECURSIVE SumBytes(_)
SumBytes(S) == IF S = {} THEN 0
               ELSE LET s == CHOOSE x \in S : TRUE
                    IN  packet_bytes(s) + SumBytes(S \ {s})

\* ------------------------------------------------------------ channels
\* sendto: each datagram is put in flight or lost; the channel holds at
\* most cap distinct datagrams (one more is lost).
Sent(net, msgs, cap) ==
  {net \cup T : T \in {X \in SUBSET msgs : X \subseteq net \/ Cardinality(net \cup X) <= cap}}

\* ------------------------------------------------------------ recvfrom
\* What recvfrom can return.  With the peer running it is a datagram of the
\* channel.  The sender is also run alone (cpc = "off") against every datagram
\* a peer or the channel can hand it, and the receiver alone (spc = "off")
\* against every datagram a session's sender emits, in any order and any
\* number of times.
\* An arbitrary ACK has cum_ack in 0..N+1 and no SACK range, one range over
\* 0..N (or the inverted range 1..0), or two ranges that overlap in one
\* sequence number or leave a gap of one.
SackRanges(n) == {<<s, e>> : s \in 0..n, e \in 0..n} \cap
                 ({r \in (0..n) \X (0..n) : r[1] <= r[2]} \cup {<<1, 0>>})
SackPairs(n) ==
  {l \in {<<r, <<q, n>> >> : r \in SackRanges(n), q \in 0..n} :
     l[1][1] <= l[1][2] /\ l[2][1] \in {l[1][2], l[1][2] + 2}}
BlockLists(n) == {<< >>} \cup {<<r>> : r \in SackRanges(n)} \cup SackPairs(n)
AckInputs(n) == {REQUEST} \cup
                {create_ack(c, b) : c \in 0..(n + 1), b \in BlockLists(n)}
SenderDatagrams(f) ==
  {create_packet(0, READY_MARKER), create_packet(Len(f), EOF_MARKER)} \cup
  {create_packet(i - 1, f[i]) : i \in 1..Len(f)}
AckPool == [n \in 0..MaxSegs |-> AckInputs(n)]
ServerInbox == IF cpc = "off" THEN AckPool[total_packets] ELSE net_c2s
ClientInbox == IF spc = "off" THEN SenderDatagrams(packets) ELSE net_s2c

\* ------------------------------------------------------------ send_times
HasTime(st, seq) == \E i \in 1..Len(st) : st[i] = seq
DelTime(st, seq) == SelectSeq(st, LAMBDA x : x # seq)
\* send_times[seq] = time.time(): seq becomes the most recent key
SetTime(st, seq) == Append(DelTime(st, seq), seq)
RECURSIVE SetTimes(_, _)
SetTimes(st, seqs) ==
  IF seqs = << >> THEN st ELSE SetTimes(SetTime(st, Head(seqs)), Tail(seqs))
\* the keys whose timestamp is among the `cut` oldest
Oldest(st, cut) == {st[i] : i \in 1..cut}
Bump(tx, S) == [s \in DOMAIN tx |-> IF s \in S THEN tx[s] + 1 ELSE tx[s]]
\* the model follows at most MaxTx transmissions of a segment (MaxTxFixed in
\* the fixed-window sender)
CanResend(tx, S) ==
  \A s \in S : tx[s] < (IF variant = "fixed" THEN MaxTxFixed ELSE MaxTx)


\* ------------------------------------------------------------ history
NoEvent == [kind |-> "none", cum |-> NONE, frx |-> NONE, swept |-> {},
            reaction |-> "none"]
Event(kind, cum, frx, swept, reaction) ==
  [kind |-> kind, cum |-> cum, frx |-> frx, swept |-> swept, reaction |-> reaction]

\* update_rto_on_sample(now - send_times[seq]): the sample is identified by
\* the segment and the number of times it had been transmitted.
update_rto_on_sample(samples, tx, seq) == samples \cup {<<seq, tx[seq]>>}

\* ------------------------------------------------------------ ACK release
\* newly_acked: every unacked seq below cum_ack, and every unacked seq in a
\* SACK block (the fixed-window sender clips a block to [0, total_packets-1]).
\* CumAcked iterating sent_once instead of unacked
CumAcked_FromSentOnce(ua, cum_ack) == {seq \in sent_once : seq < cum_ack}
CumAcked(ua, cum_ack) == {seq \in ua : seq < cum_ack}
\* P1_SackAcked without the test `if seq in self.unacked`
P1_SackAcked_NoMembership(ua, sack_blocks) ==
  {seq \in Segs : \E i \in 1..Len(sack_blocks) :
      /\ MaxOf(0, sack_blocks[i][1]) <= seq
      /\ seq <= MinOf(sack_blocks[i][2], total_packets - 1)}
P1_SackAcked(ua, sack_blocks) ==
  {seq \in ua : \E i \in 1..Len(sack_blocks) :
      /\ MaxOf(0, sack_blocks[i][1]) <= seq
      /\ seq <= MinOf(sack_blocks[i][2], total_packets - 1)}
P2_SackAcked(ua, sack_blocks) ==
  {seq \in ua : \E i \in 1..Len(sack_blocks) :
      sack_blocks[i][1] <= seq /\ seq <= sack_blocks[i][2]}

\* Release that leaves the released segment's entry in send_times
RECURSIVE Release_KeepTime(_, _)
Release_KeepTime(s, seqs) ==
  IF seqs = << >> THEN s
  ELSE LET seq == Head(seqs)
       IN  Release_KeepTime([ua |-> s.ua \ {seq},
                    bif |-> s.bif - packet_bytes(seq),
                    samples |-> IF HasTime(s.st, seq)
                                THEN update_rto_on_sample(s.samples, tx_count, seq)
                                ELSE s.samples,
                    st |-> s.st],
                   Tail(seqs))
\* for seq in sorted(newly_acked): remove from unacked, subtract its bytes,
\* feed an RTT sample and delete the send time if there is one.
RECURSIVE Release(_, _)
Release(s, seqs) ==
  IF seqs = << >> THEN s
  ELSE LET seq == Head(seqs)
       IN  Release([ua |-> s.ua \ {seq},
                    bif |-> s.bif - packet_bytes(seq),
                    samples |-> IF HasTime(s.st, seq)
                                THEN update_rto_on_sample(s.samples, tx_count, seq)
                                ELSE s.samples,
                    st |-> DelTime(s.st, seq)],
                   Tail(seqs))

\* ------------------------------------------------------------ p1_server.py
\* start(): the first datagram received is the request; answer with the
\* ready datagram and enter send_file.
P1_Start(m, keep) ==
  /\ variant = "fixed" /\ spc = "listen"
  /\ m \in ServerInbox
  /\ net_c2s' = IF keep THEN net_c2s ELSE net_c2s \ {m}
  /\ net_s2c' \in Sent(net_s2c, {create_packet(0, READY_MARKER)}, cap_s2c)
  /\ next_seq' = 0 /\ last_cum_ack' = 0 - 1 /\ dup_ack_count' = 0
  /\ spc' = "admit"
  /\ sev' = Event("start", NONE, NONE, {}, "none")
  /\ UNCHANGED <<sent_once, unacked, send_times, bytes_in_flight, cwnd, Wmax,
                 epoch_start, in_recovery, congestion_last_sent, retries,
                 tx_count, rtt_samples>>
  /\ UNCHANGED <<config_vars, receiver_vars>>
  /\ UNCHANGED <<inflations, frx_cum>>

\* The admission loop: send new segments while the window allows.
\* P1_AdmitLoop testing bytes_in_flight alone, without the length of the
\* segment to admit
RECURSIVE P1_AdmitLoop_NoLen(_)
P1_AdmitLoop_NoLen(s) ==
  IF s.ns < total_packets /\ s.bif <= window_size
  THEN LET new == s.ns \notin s.so
       IN  P1_AdmitLoop_NoLen([ns |-> s.ns + 1,
                         so |-> s.so \cup {s.ns},
                         ua |-> IF new THEN s.ua \cup {s.ns} ELSE s.ua,
                         bif |-> IF new THEN s.bif + packet_bytes(s.ns) ELSE s.bif,
                         st |-> SetTime(s.st, s.ns),
                         out |-> s.out \cup {create_packet(s.ns, packets[s.ns + 1])}])
  ELSE s
RECURSIVE P1_AdmitLoop(_)
P1_AdmitLoop(s) ==
  IF s.ns < total_packets /\ (s.bif + packet_bytes(s.ns)) <= window_size
  THEN LET new == s.ns \notin s.so
       IN  P1_AdmitLoop([ns |-> s.ns + 1,
                         so |-> s.so \cup {s.ns},
                         ua |-> IF new THEN s.ua \cup {s.ns} ELSE s.ua,
                         bif |-> IF new THEN s.bif + packet_bytes(s.ns) ELSE s.bif,
                         st |-> SetTime(s.st, s.ns),
                         out |-> s.out \cup {create_packet(s.ns, packets[s.ns + 1])}])
  ELSE s

\* One turn of the send loop up to the blocking recvfrom: admission, then
\* the terminal check.
P1_Admit ==
  /\ variant = "fixed" /\ spc = "admit"
  /\ LET r == P1_AdmitLoop([ns |-> next_seq, so |-> sent_once, ua |-> unacked,
                            bif |-> bytes_in_flight, st |-> send_times, out |-> {}])
     IN  /\ next_seq' = r.ns /\ sent_once' = r.so /\ unacked' = r.ua
         /\ bytes_in_flight' = r.bif /\ send_times' = r.st
         /\ tx_count' = Bump(tx_count, next_seq..(r.ns - 1))
         /\ net_s2c' \in Sent(net_s2c, r.out, cap_s2c)
         /\ spc' = IF r.ns >= total_packets /\ r.ua = {} THEN "eof" ELSE "recv"
         /\ sev' = Event("admit", NONE, NONE, {}, "none")
  /\ UNCHANGED <<last_cum_ack, dup_ack_count, cwnd, Wmax, epoch_start,
                 in_recovery, congestion_last_sent, retries, rtt_samples>>
  /\ UNCHANGED <<config_vars, receiver_vars, net_c2s>>
  /\ UNCHANGED <<inflations, frx_cum>>

\* The tracker fields the ACK handlers read and write.
Tracker ==
  [so |-> sent_once, ua |-> unacked, bif |-> bytes_in_flight, st |-> send_times,
   last |-> last_cum_ack, dup |-> dup_ack_count,
   rec |-> in_recovery, anchor |-> congestion_last_sent]

\* Lines 133-176 on the tracker s: duplicate detection, the fast retransmit
\* of min(unacked) with its send time refreshed, then the release of
\* newly_acked.  The result also reports what the handler did.
P1_AckTurn(m, s) ==
  LET cum_ack == parse_ack(m)[1]
      sack_blocks == parse_ack(m)[2]
      is_dup == cum_ack = s.last
      dup1 == IF is_dup THEN s.dup + 1 ELSE 0
      fast == dup1 >= DUP_ACK_THRESHOLD /\ s.ua # {}
      oldest_unacked == IF s.ua = {} THEN NONE ELSE Min(s.ua)
      st1 == IF fast THEN SetTime(s.st, oldest_unacked) ELSE s.st
      newly_acked == CumAcked(s.ua, cum_ack) \cup P1_SackAcked(s.ua, sack_blocks)
      r == Release([ua |-> s.ua, bif |-> s.bif, samples |-> {}, st |-> st1],
                   Sorted(newly_acked))
  IN  [so |-> s.so, ua |-> r.ua, bif |-> r.bif, st |-> r.st,
       last |-> cum_ack, dup |-> IF fast THEN 0 ELSE dup1,
       rec |-> s.rec, anchor |-> s.anchor,
       samples |-> r.samples, st1 |-> st1, is_dup |-> is_dup, fast |-> fast,
       oldest_unacked |-> oldest_unacked]

\* recvfrom returned datagram m: duplicate-ACK detection, fast retransmit,
\* cumulative and SACK release.  Comparing a segment number with a cum_ack
\* of None raises TypeError, which send_file re-raises.
P1_OnAck(m, keep) ==
  /\ variant = "fixed" /\ spc = "recv"
  /\ m \in ServerInbox
  /\ net_c2s' = IF keep THEN net_c2s ELSE net_c2s \ {m}
  /\ \E a \in {P1_AckTurn(m, Tracker)} :
     LET cum_ack == a.last
         raises == cum_ack = NONE /\ unacked # {}
     IN  /\ a.is_dup => dup_ack_count < MaxDup
         /\ a.fast => CanResend(tx_count, {a.oldest_unacked})
         /\ last_cum_ack' = a.last
         /\ dup_ack_count' = a.dup
         /\ frx_cum' = IF a.fast THEN cum_ack
                      ELSE IF a.is_dup THEN frx_cum ELSE NONE
         /\ tx_count' = IF a.fast THEN Bump(tx_count, {a.oldest_unacked}) ELSE tx_count
         /\ net_s2c' \in Sent(net_s2c,
               IF a.fast
               THEN {create_packet(a.oldest_unacked, packets[a.oldest_unacked + 1])}
               ELSE {}, cap_s2c)
         /\ sev' = Event(IF raises THEN "raise" ELSE "ack", cum_ack,
                         IF a.fast THEN a.oldest_unacked ELSE NONE, {}, "none")
         /\ IF raises
            THEN /\ spc' = "crashed"
                 /\ send_times' = a.st1
                 /\ UNCHANGED <<unacked, bytes_in_flight, rtt_samples>>
            ELSE /\ spc' = "admit"
                 /\ unacked' = a.ua /\ bytes_in_flight' = a.bif
                 /\ rtt_samples' = a.samples /\ send_times' = a.st
  /\ UNCHANGED <<next_seq, sent_once, cwnd, Wmax, epoch_start, in_recovery,
                 congestion_last_sent, retries>>
  /\ UNCHANGED <<config_vars, receiver_vars>>
  /\ UNCHANGED inflations

\* socket.timeout: the per-packet timer sweep.  The expired segments are
\* the unacked ones among the `cut` oldest send times.
P1_Timeout(cut) ==
  /\ variant = "fixed" /\ spc = "recv"
  /\ cut \in 0..Len(send_times)
  /\ LET timed_out_seqs == Sorted(Oldest(send_times, cut) \cap unacked)
     IN  /\ CanResend(tx_count, Range(timed_out_seqs))
         /\ send_times' = SetTimes(send_times, timed_out_seqs)
         /\ tx_count' = Bump(tx_count, Range(timed_out_seqs))
         /\ net_s2c' \in Sent(net_s2c,
               {create_packet(seq, packets[seq + 1]) : seq \in Range(timed_out_seqs)}, cap_s2c)
         /\ sev' = Event("timeout", NONE, NONE, Range(timed_out_seqs), "none")
  /\ spc' = "admit"
  /\ UNCHANGED <<next_seq, sent_once, unacked, bytes_in_flight, last_cum_ack,
                 dup_ack_count, cwnd, Wmax, epoch_start, in_recovery,
                 congestion_last_sent, retries, rtt_samples>>
  /\ UNCHANGED <<config_vars, receiver_vars, net_c2s>>
  /\ UNCHANGED <<inflations, frx_cum>>

\* EOF phase: while retries < max_retries and not eof_acked: send EOF ...
P1_EofSend ==
  /\ variant = "fixed" /\ spc = "eof"
  /\ retries < P1_MAX_EOF_RETRIES
  /\ net_s2c' \in Sent(net_s2c, {create_packet(total_packets, EOF_MARKER)}, cap_s2c)
  /\ spc' = "eofwait"
  /\ sev' = Event("eofsend", NONE, NONE, {}, "none")
  /\ UNCHANGED <<next_seq, sent_once, unacked, send_times, bytes_in_flight,
                 last_cum_ack, dup_ack_count, cwnd, Wmax, epoch_start,
                 in_recovery, congestion_last_sent, retries, tx_count, rtt_samples>>
  /\ UNCHANGED <<config_vars, receiver_vars, net_c2s>>
  /\ UNCHANGED <<inflations, frx_cum>>

\* ... and wait for an ACK above eof_seq.  `None > eof_seq` raises TypeError.
P1_EofAck(m, keep) ==
  /\ variant = "fixed" /\ spc = "eofwait"
  /\ m \in ServerInbox
  /\ net_c2s' = IF keep THEN net_c2s ELSE net_c2s \ {m}
  /\ LET cum_ack == parse_ack(m)[1]
     IN  /\ spc' = IF cum_ack = NONE THEN "crashed"
                   ELSE IF cum_ack > total_packets THEN "done" ELSE "eof"
         /\ sev' = Event(IF cum_ack = NONE THEN "raise" ELSE "eofack", cum_ack,
                         NONE, {}, "none")
  /\ UNCHANGED <<next_seq, sent_once, unacked, send_times, bytes_in_flight,
                 last_cum_ack, dup_ack_count, cwnd, Wmax, epoch_start,
                 in_recovery, congestion_last_sent, retries, tx_count, rtt_samples>>
  /\ UNCHANGED <<config_vars, receiver_vars, net_s2c>>
  /\ UNCHANGED <<inflations, frx_cum>>

P1_EofTimeout ==
  /\ variant = "fixed" /\ spc = "eofwait"
  /\ retries' = retries + 1
  /\ spc' = IF retries + 1 < P1_MAX_EOF_RETRIES THEN "eof" ELSE "done"
  /\ sev' = Event("eoftimeout", NONE, NONE, {}, "none")
  /\ UNCHANGED <<next_seq, sent_once, unacked, send_times, bytes_in_flight,
                 last_cum_ack, dup_ack_count, cwnd, Wmax, epoch_start,
                 in_recovery, congestion_last_sent, tx_count, rtt_samples>>
  /\ UNCHANGED <<config_vars, receiver_vars, net_s2c, net_c2s>>
  /\ UNCHANGED <<inflations, frx_cum>>


\* ------------------------------------------------------------ p2_client.py
NoReceive == [kind |-> "none", seq |-> NONE, cum |-> NONE, blocks |-> << >>,
              stored |-> FALSE]
Received(kind, seq, cum, blocks, stored) ==
  [kind |-> kind, seq |-> seq, cum |-> cum, blocks |-> blocks, stored |-> stored]

\* The maximal contiguous runs <<s, e>> of a set of sequence numbers.
Runs(S) == {<<s, e>> \in S \X S :
               /\ s <= e
               /\ \A x \in s..e : x \in S
               /\ (s - 1) \notin S /\ (e + 1) \notin S}

\* find_sack_blocks without the membership test: a recent_seq that is not
\* buffered still reports the lowest buffered run
find_sack_blocks_NoMembershipTest(recent_seq, received) ==
  IF recent_seq = NONE \/ received = {} THEN << >>
  ELSE IF recent_seq \notin received
  THEN <<CHOOSE r \in Runs(received) : \A q \in Runs(received) : r[1] <= q[1]>>
  ELSE LET first == CHOOSE r \in Runs(received) : r[1] <= recent_seq /\ recent_seq <= r[2]
           others == {r \in Runs(received) : ~(r[1] <= recent_seq /\ recent_seq <= r[2])}
           second == CHOOSE r \in others : \A q \in others : r[1] <= q[1]
       IN  IF others = {} THEN <<first>> ELSE <<first, second>>
\* find_sack_blocks: the run around recent_seq, then the lowest run that
\* does not contain it.
find_sack_blocks(recent_seq, received) ==
  IF recent_seq = NONE \/ recent_seq \notin received THEN << >>
  ELSE LET first == CHOOSE r \in Runs(received) : r[1] <= recent_seq /\ recent_seq <= r[2]
           others == {r \in Runs(received) : ~(r[1] <= recent_seq /\ recent_seq <= r[2])}
           second == CHOOSE r \in others : \A q \in others : r[1] <= q[1]
       IN  IF others = {} THEN <<first>> ELSE <<first, second>>

\* deliver any in-order data starting from next_expected_seq
\* Deliver taking the lowest buffered segment, whatever the cursor
RECURSIVE Deliver_LowestBuffered(_)
Deliver_LowestBuffered(s) ==
  IF DOMAIN s.buf # {}
  THEN LET lo == Min(DOMAIN s.buf)
       IN  Deliver_LowestBuffered([nes |-> lo + 1,
                buf |-> [x \in (DOMAIN s.buf) \ {lo} |-> s.buf[x]],
                seqs |-> s.seqs \ {lo},
                data |-> Append(s.data, s.buf[lo])])
  ELSE s
RECURSIVE Deliver(_)
Deliver(s) ==
  IF s.nes \in DOMAIN s.buf
  THEN Deliver([nes |-> s.nes + 1,
                buf |-> [x \in (DOMAIN s.buf) \ {s.nes} |-> s.buf[x]],
                seqs |-> s.seqs \ {s.nes},
                data |-> Append(s.data, s.buf[s.nes])])
  ELSE s

\* send_request: one attempt sends the request and waits for any datagram.
C_SendRequest ==
  /\ cpc = "request"
  /\ attempt < MAX_REQUEST_RETRIES
  /\ net_c2s' \in Sent(net_c2s, {REQUEST}, cap_c2s)
  /\ cpc' = "reqwait"
  /\ rev' = Received("request", NONE, NONE, << >>, FALSE)
  /\ UNCHANGED <<attempt, receive_buffer, received_seqs, next_expected_seq,
                 received_data, last_received_seq>>
  /\ UNCHANGED <<config_vars, sender_vars, net_s2c>>

C_Response(m, keep) ==
  /\ cpc = "reqwait"
  /\ m \in ClientInbox
  /\ net_s2c' = IF keep THEN net_s2c ELSE net_s2c \ {m}
  /\ cpc' = IF m.len > 0 THEN "loop"
            ELSE IF attempt + 1 < MAX_REQUEST_RETRIES THEN "request" ELSE "failed"
  /\ attempt' = IF m.len > 0 THEN 0 ELSE attempt + 1
  /\ rev' = Received("response", NONE, NONE, << >>, FALSE)
  /\ UNCHANGED <<receive_buffer, received_seqs, next_expected_seq,
                 received_data, last_received_seq>>
  /\ UNCHANGED <<config_vars, sender_vars, net_c2s>>

\* C_RequestTimeout allowing one attempt more than MAX_REQUEST_RETRIES
C_RequestTimeout_OneMore ==
  /\ cpc = "reqwait"
  /\ attempt' = attempt + 1
  /\ cpc' = IF attempt + 1 <= MAX_REQUEST_RETRIES THEN "request" ELSE "failed"
  /\ rev' = Received("reqtimeout", NONE, NONE, << >>, FALSE)
  /\ UNCHANGED <<receive_buffer, received_seqs, next_expected_seq,
                 received_data, last_received_seq>>
  /\ UNCHANGED <<config_vars, sender_vars, net_s2c, net_c2s>>
C_RequestTimeout ==
  /\ cpc = "reqwait"
  /\ attempt' = attempt + 1
  /\ cpc' = IF attempt + 1 < MAX_REQUEST_RETRIES THEN "request" ELSE "failed"
  /\ rev' = Received("reqtimeout", NONE, NONE, << >>, FALSE)
  /\ UNCHANGED <<receive_buffer, received_seqs, next_expected_seq,
                 received_data, last_received_seq>>
  /\ UNCHANGED <<config_vars, sender_vars, net_s2c, net_c2s>>

\* receive_file: one datagram.  A payload equal to EOF_MARKER ends the loop
\* (final ACK, then the file is written); anything else is stored if its
\* seq is not in received_seqs, delivered in order, and acknowledged.
C_Receive(m, keep) ==
  /\ cpc = "loop"
  /\ m \in ClientInbox
  /\ net_s2c' = IF keep THEN net_s2c ELSE net_s2c \ {m}
  /\ LET seq == parse_packet(m)[1]
         data == parse_packet(m)[2]
         store == seq \notin received_seqs
         buf1 == IF store
                 THEN [x \in (DOMAIN receive_buffer) \cup {seq} |->
                         IF x = seq THEN data ELSE receive_buffer[x]]
                 ELSE receive_buffer
         seqs1 == IF store THEN received_seqs \cup {seq} ELSE received_seqs
         d == Deliver([nes |-> next_expected_seq, buf |-> buf1, seqs |-> seqs1,
                       data |-> received_data])
         sack_blocks == find_sack_blocks(seq, d.seqs)
     IN  IF seq = NONE
         THEN /\ rev' = Received("short", NONE, NONE, << >>, FALSE)
              /\ UNCHANGED <<cpc, receive_buffer, received_seqs, next_expected_seq,
                             received_data, last_received_seq, net_c2s>>
         ELSE IF data = EOF_MARKER
         THEN /\ net_c2s' \in Sent(net_c2s, {create_ack(seq + 1, << >>)}, cap_c2s)
              /\ cpc' = "done"
              /\ rev' = Received("eof", seq, seq + 1, << >>, FALSE)
              /\ UNCHANGED <<receive_buffer, received_seqs, next_expected_seq,
                             received_data, last_received_seq>>
         ELSE /\ receive_buffer' = d.buf /\ received_seqs' = d.seqs
              /\ next_expected_seq' = d.nes /\ received_data' = d.data
              /\ last_received_seq' = seq
              /\ net_c2s' \in Sent(net_c2s, {create_ack(d.nes, sack_blocks)}, cap_c2s)
              /\ rev' = Received("data", seq, d.nes, sack_blocks, store)
              /\ UNCHANGED cpc
  /\ UNCHANGED attempt
  /\ UNCHANGED <<config_vars, sender_vars>>

\* socket.timeout in receive_file: resend the ACK for the current state.
C_IdleTimeout ==
  /\ cpc = "loop"
  /\ LET sack_blocks == find_sack_blocks(last_received_seq, received_seqs)
     IN  /\ net_c2s' \in Sent(net_c2s, {create_ack(next_expected_seq, sack_blocks)}, cap_c2s)
         /\ rev' = Received("idle", last_received_seq, next_expected_seq,
                            sack_blocks, FALSE)
  /\ UNCHANGED <<cpc, attempt, receive_buffer, received_seqs, next_expected_seq,
                 received_data, last_received_seq>>
  /\ UNCHANGED <<config_vars, sender_vars, net_s2c>>


\* ------------------------------------------------------------ p2_server.py
CWND_MIN == CWND_FLOOR_MSS * DATA_SIZE
CWND_MAX == MAX_CWND * DATA_SIZE
\* the clamp of cubic_update without its lower bound
Clamp_NoFloor(w) == MinOf(w, CWND_MAX)
Clamp(w) == MaxOf(CWND_MIN, MinOf(w, CWND_MAX))

\* Wt = C_CUBIC * (t - K)^3 + Wmax at three readings of the clock: at the
\* start of the epoch (t = 0, where C_CUBIC * K^3 = Wmax * BETA_CUBIC), at
\* t = K, and late enough for the cap.
CubicTimes == {"epoch", "K", "late"}
CubicW(wmax, t) ==
  CASE t = "epoch" -> wmax - (3 * wmax) \div 10
    [] t = "K" -> wmax
    [] OTHER -> CWND_MAX + C_CUBIC

\* cubic_update without its first test `if self.in_recovery: return`
cubic_update_NoRecoveryTest(c, wmax, epoch, recovering, t) ==
  IF epoch = "None" THEN <<c, "now">>
  ELSE <<Clamp(CubicW(wmax, t)), epoch>>
\* cubic_update: <<cwnd, epoch_start>> after the call.  K is set with
\* epoch_start from Wmax, and Wmax changes only where epoch_start is reset,
\* so K is the cube root of Wmax * BETA_CUBIC / C_CUBIC whenever it is read.
cubic_update(c, wmax, epoch, recovering, t) ==
  IF recovering THEN <<c, epoch>>
  ELSE IF epoch = "None" THEN <<c, "now">>
  ELSE <<Clamp(CubicW(wmax, t)), epoch>>

\* on_congestion_event whose severe branch records cwnd, not cwnd / 2, in Wmax
on_congestion_event_SevereFullWmax(c, severe) ==
  IF severe THEN <<CWND_MIN, c>> ELSE <<c \div 2, c>>
\* on_congestion_event: <<cwnd, Wmax>> after the call (epoch_start is reset)
on_congestion_event(c, severe) ==
  IF severe THEN <<CWND_MIN, c \div 2>> ELSE <<c \div 2, c>>

P2_Start(m, keep) ==
  /\ variant = "cubic" /\ spc = "listen"
  /\ m \in ServerInbox
  /\ net_c2s' = IF keep THEN net_c2s ELSE net_c2s \ {m}
  /\ net_s2c' \in Sent(net_s2c, {create_packet(0, READY_MARKER)}, cap_s2c)
  /\ next_seq' = 0 /\ congestion_last_sent' = NONE
  /\ spc' = "admit"
  /\ sev' = Event("start", NONE, NONE, {}, "none")
  /\ UNCHANGED <<sent_once, unacked, send_times, bytes_in_flight, last_cum_ack,
                 dup_ack_count, cwnd, Wmax, epoch_start, in_recovery, retries,
                 tx_count, rtt_samples>>
  /\ UNCHANGED <<config_vars, receiver_vars>>
  /\ UNCHANGED <<inflations, frx_cum>>

RECURSIVE P2_AdmitLoop(_)
P2_AdmitLoop(s) ==
  IF /\ s.ns < total_packets /\ (s.bif + packet_bytes(s.ns)) <= cwnd
     /\ ~(in_recovery /\ s.bif > cwnd)
  THEN LET new == s.ns \notin s.so
       IN  P2_AdmitLoop([ns |-> s.ns + 1,
                         so |-> s.so \cup {s.ns},
                         ua |-> IF new THEN s.ua \cup {s.ns} ELSE s.ua,
                         bif |-> IF new THEN s.bif + packet_bytes(s.ns) ELSE s.bif,
                         st |-> SetTime(s.st, s.ns),
                         out |-> s.out \cup {create_packet(s.ns, packets[s.ns + 1])}])
  ELSE s

P2_Admit ==
  /\ variant = "cubic" /\ spc = "admit"
  /\ LET r == P2_AdmitLoop([ns |-> next_seq, so |-> sent_once, ua |-> unacked,
                            bif |-> bytes_in_flight, st |-> send_times, out |-> {}])
     IN  /\ next_seq' = r.ns /\ sent_once' = r.so /\ unacked' = r.ua
         /\ bytes_in_flight' = r.bif /\ send_times' = r.st
         /\ tx_count' = Bump(tx_count, next_seq..(r.ns - 1))
         /\ net_s2c' \in Sent(net_s2c, r.out, cap_s2c)
         /\ spc' = IF r.ns >= total_packets /\ r.ua = {} THEN "eof" ELSE "recv"
         /\ sev' = Event("admit", NONE, NONE, {}, "none")
  /\ UNCHANGED <<last_cum_ack, dup_ack_count, cwnd, Wmax, epoch_start,
                 in_recovery, congestion_last_sent, retries, rtt_samples>>
  /\ UNCHANGED <<config_vars, receiver_vars, net_c2s>>
  /\ UNCHANGED <<inflations, frx_cum>>

\* P2_AckTurn without the test `if not self.in_recovery` before the fast
\* retransmit
P2_AckTurn_NoRecoveryTest(m, s, cut) ==
  LET cum_ack == parse_ack(m)[1]
      sack_blocks == parse_ack(m)[2]
      is_dup == cum_ack = s.last
      exits == ~is_dup /\ s.rec /\ cum_ack > s.anchor
      rec1 == IF exits THEN FALSE ELSE s.rec
      dup1 == IF is_dup THEN s.dup + 1 ELSE 0
      trigger == dup1 >= DUP_ACK_THRESHOLD /\ s.ua # {}
      fast == trigger
      sweep == FALSE
      oldest_unacked == IF s.ua = {} THEN NONE ELSE Min(s.ua)
      timeouts == IF sweep THEN Sorted(Oldest(s.st, cut) \cap s.ua) ELSE << >>
      resent == IF fast THEN <<oldest_unacked>> ELSE timeouts
      st1 == SetTimes(s.st, resent)
      newly_acked == CumAcked(s.ua, cum_ack) \cup P2_SackAcked(s.ua, sack_blocks)
      r == Release([ua |-> s.ua, bif |-> s.bif, samples |-> {}, st |-> st1],
                   Sorted(newly_acked))
  IN  [so |-> s.so, ua |-> r.ua, bif |-> r.bif, st |-> r.st,
       last |-> cum_ack, dup |-> IF fast THEN 0 ELSE dup1,
       rec |-> rec1 \/ fast,
       anchor |-> IF fast THEN next_seq - 1 ELSE s.anchor,
       samples |-> r.samples, st1 |-> st1, is_dup |-> is_dup, fast |-> fast,
       sweep |-> sweep, oldest_unacked |-> oldest_unacked,
       timeouts |-> timeouts, resent |-> resent]
\* P2_AckTurn leaving recovery already when cum_ack equals the anchor
P2_AckTurn_ExitAtAnchor(m, s, cut) ==
  LET cum_ack == parse_ack(m)[1]
      sack_blocks == parse_ack(m)[2]
      is_dup == cum_ack = s.last
      exits == ~is_dup /\ s.rec /\ cum_ack >= s.anchor
      rec1 == IF exits THEN FALSE ELSE s.rec
      dup1 == IF is_dup THEN s.dup + 1 ELSE 0
      trigger == dup1 >= DUP_ACK_THRESHOLD /\ s.ua # {}
      fast == trigger /\ ~rec1
      sweep == trigger /\ rec1 /\ dup1 % RECOVERY_SWEEP_PERIOD = 0
      oldest_unacked == IF s.ua = {} THEN NONE ELSE Min(s.ua)
      timeouts == IF sweep THEN Sorted(Oldest(s.st, cut) \cap s.ua) ELSE << >>
      resent == IF fast THEN <<oldest_unacked>> ELSE timeouts
      st1 == SetTimes(s.st, resent)
      newly_acked == CumAcked(s.ua, cum_ack) \cup P2_SackAcked(s.ua, sack_blocks)
      r == Release([ua |-> s.ua, bif |-> s.bif, samples |-> {}, st |-> st1],
                   Sorted(newly_acked))
  IN  [so |-> s.so, ua |-> r.ua, bif |-> r.bif, st |-> r.st,
       last |-> cum_ack, dup |-> IF fast THEN 0 ELSE dup1,
       rec |-> rec1 \/ fast,
       anchor |-> IF fast THEN next_seq - 1 ELSE s.anchor,
       samples |-> r.samples, st1 |-> st1, is_dup |-> is_dup, fast |-> fast,
       sweep |-> sweep, oldest_unacked |-> oldest_unacked,
       timeouts |-> timeouts, resent |-> resent]
\* Lines 173-243 on the tracker s: duplicate detection, the exit from
\* recovery, the fast retransmit or the in-recovery sweep (of the unacked
\* segments among the `cut` oldest send times), then the release of
\* newly_acked.  The result also reports what the handler did.
P2_AckTurn(m, s, cut) ==
  LET cum_ack == parse_ack(m)[1]
      sack_blocks == parse_ack(m)[2]
      is_dup == cum_ack = s.last
      exits == ~is_dup /\ s.rec /\ cum_ack > s.anchor
      rec1 == IF exits THEN FALSE ELSE s.rec
      dup1 == IF is_dup THEN s.dup + 1 ELSE 0
      trigger == dup1 >= DUP_ACK_THRESHOLD /\ s.ua # {}
      fast == trigger /\ ~rec1
      sweep == trigger /\ rec1 /\ dup1 % RECOVERY_SWEEP_PERIOD = 0
      oldest_unacked == IF s.ua = {} THEN NONE ELSE Min(s.ua)
      timeouts == IF sweep THEN Sorted(Oldest(s.st, cut) \cap s.ua) ELSE << >>
      resent == IF fast THEN <<oldest_unacked>> ELSE timeouts
      st1 == SetTimes(s.st, resent)
      newly_acked == CumAcked(s.ua, cum_ack) \cup P2_SackAcked(s.ua, sack_blocks)
      r == Release([ua |-> s.ua, bif |-> s.bif, samples |-> {}, st |-> st1],
                   Sorted(newly_acked))
  IN  [so |-> s.so, ua |-> r.ua, bif |-> r.bif, st |-> r.st,
       last |-> cum_ack, dup |-> IF fast THEN 0 ELSE dup1,
       rec |-> rec1 \/ fast,
       anchor |-> IF fast THEN next_seq - 1 ELSE s.anchor,
       samples |-> r.samples, st1 |-> st1, is_dup |-> is_dup, fast |-> fast,
       sweep |-> sweep, oldest_unacked |-> oldest_unacked,
       timeouts |-> timeouts, resent |-> resent]

\* recvfrom returned datagram m.  The expired send times of the in-recovery
\* sweep (cut) and the clock reading of cubic_update (t) are chosen by the
\* environment where the code reads them.
P2_OnAck(m, keep) ==
  /\ variant = "cubic" /\ spc = "recv"
  /\ m \in ServerInbox
  /\ net_c2s' = IF keep THEN net_c2s ELSE net_c2s \ {m}
  /\ LET cum_ack == parse_ack(m)[1]
         is_dup == cum_ack = last_cum_ack
         \* the exit test compares cum_ack with the anchor
         raises1 == ~is_dup /\ in_recovery /\ cum_ack = NONE
         raises2 == cum_ack = NONE /\ unacked # {}
     IN  /\ is_dup => dup_ack_count < MaxDup
         /\ IF raises1
            THEN /\ spc' = "crashed"
                 /\ UNCHANGED inflations
                 /\ sev' = Event("raise", cum_ack, NONE, {}, "none")
                 /\ UNCHANGED <<unacked, send_times, bytes_in_flight, last_cum_ack,
                                dup_ack_count, cwnd, Wmax, epoch_start,
                                in_recovery, congestion_last_sent, tx_count,
                                rtt_samples, net_s2c>>
            ELSE \E a0 \in {P2_AckTurn(m, Tracker, 0)} :
                 \E cut \in IF a0.sweep THEN 0..Len(send_times) ELSE {0} :
                 \E a \in {IF cut = 0 THEN a0 ELSE P2_AckTurn(m, Tracker, cut)} :
                 LET ce == IF a.fast THEN on_congestion_event(cwnd, FALSE)
                           ELSE <<cwnd, Wmax>>
                     epoch1 == IF a.fast THEN "None" ELSE epoch_start
                     inflates == a.dup > 0 /\ a.rec
                     cwnd2 == IF inflates THEN ce[1] + DATA_SIZE ELSE ce[1]
                 IN
                 /\ CanResend(tx_count, Range(a.resent))
                 /\ inflates => inflations < MaxInflate
                 /\ inflations' = IF inflates THEN inflations + 1 ELSE inflations
                 /\ last_cum_ack' = a.last
                 /\ dup_ack_count' = a.dup
                 /\ in_recovery' = a.rec
                 /\ congestion_last_sent' = a.anchor
                 /\ tx_count' = Bump(tx_count, Range(a.resent))
                 /\ net_s2c' \in Sent(net_s2c,
                       {create_packet(seq, packets[seq + 1]) : seq \in Range(a.resent)},
                       cap_s2c)
                 /\ Wmax' = ce[2]
                 /\ sev' = Event(IF raises2 THEN "raise" ELSE "ack", cum_ack,
                                 IF a.fast THEN a.oldest_unacked ELSE NONE,
                                 Range(a.timeouts),
                                 IF a.fast THEN "mild"
                                 ELSE IF ~raises2 /\ ~a.rec /\ epoch1 # "None"
                                 THEN "growth" ELSE "none")
                 /\ IF raises2
                    THEN /\ spc' = "crashed"
                         /\ send_times' = a.st1 /\ cwnd' = cwnd2
                         /\ epoch_start' = epoch1
                         /\ UNCHANGED <<unacked, bytes_in_flight, rtt_samples>>
                    ELSE /\ spc' = "admit"
                         /\ unacked' = a.ua /\ bytes_in_flight' = a.bif
                         /\ rtt_samples' = a.samples /\ send_times' = a.st
                         /\ \E t \in IF ~a.rec /\ epoch1 # "None"
                                     THEN CubicTimes ELSE {"epoch"} :
                              LET cu == cubic_update(cwnd2, ce[2], epoch1, a.rec, t)
                              IN  cwnd' = cu[1] /\ epoch_start' = cu[2]
  /\ UNCHANGED <<next_seq, sent_once, retries, frx_cum>>
  /\ UNCHANGED <<config_vars, receiver_vars>>

\* socket.timeout after rto + 0.01 s: every send time is older than rto.
P2_Timeout ==
  /\ variant = "cubic" /\ spc = "recv"
  /\ LET timeouts == Sorted(Range(send_times) \cap unacked)
         ce == on_congestion_event(cwnd, TRUE)
     IN  /\ CanResend(tx_count, Range(timeouts))
         /\ send_times' = SetTimes(send_times, timeouts)
         /\ tx_count' = Bump(tx_count, Range(timeouts))
         /\ net_s2c' \in Sent(net_s2c,
               {create_packet(seq, packets[seq + 1]) : seq \in Range(timeouts)}, cap_s2c)
         /\ cwnd' = IF timeouts # << >> THEN ce[1] ELSE cwnd
         /\ Wmax' = IF timeouts # << >> THEN ce[2] ELSE Wmax
         /\ epoch_start' = IF timeouts # << >> THEN "None" ELSE epoch_start
         /\ sev' = Event("timeout", NONE, NONE, Range(timeouts),
                         IF timeouts # << >> THEN "severe" ELSE "none")
  /\ spc' = "admit"
  /\ UNCHANGED <<next_seq, sent_once, unacked, bytes_in_flight, last_cum_ack,
                 dup_ack_count, in_recovery, congestion_last_sent, retries,
                 rtt_samples>>
  /\ UNCHANGED <<config_vars, receiver_vars, net_c2s>>
  /\ UNCHANGED <<inflations, frx_cum>>

\* EOF phase: for i in range(5): send EOF, wait one rto for an ACK above it.
P2_EofSend ==
  /\ variant = "cubic" /\ spc = "eof"
  /\ retries < P2_EOF_ATTEMPTS
  /\ net_s2c' \in Sent(net_s2c, {create_packet(total_packets, EOF_MARKER)}, cap_s2c)
  /\ spc' = "eofwait"
  /\ sev' = Event("eofsend", NONE, NONE, {}, "none")
  /\ UNCHANGED <<next_seq, sent_once, unacked, send_times, bytes_in_flight,
                 last_cum_ack, dup_ack_count, cwnd, Wmax, epoch_start,
                 in_recovery, congestion_last_sent, retries, tx_count, rtt_samples>>
  /\ UNCHANGED <<config_vars, receiver_vars, net_c2s>>
  /\ UNCHANGED <<inflations, frx_cum>>

P2_EofAck(m, keep) ==
  /\ variant = "cubic" /\ spc = "eofwait"
  /\ m \in ServerInbox
  /\ net_c2s' = IF keep THEN net_c2s ELSE net_c2s \ {m}
  /\ LET cum_ack == parse_ack(m)[1]
     IN  /\ spc' = IF cum_ack = NONE THEN "crashed"
                   ELSE IF cum_ack > total_packets THEN "done"
                   ELSE IF retries + 1 < P2_EOF_ATTEMPTS THEN "eof" ELSE "done"
         /\ retries' = IF cum_ack = NONE \/ cum_ack > total_packets
                       THEN retries ELSE retries + 1
         /\ sev' = Event(IF cum_ack = NONE THEN "raise" ELSE "eofack", cum_ack,
                         NONE, {}, "none")
  /\ UNCHANGED <<next_seq, sent_once, unacked, send_times, bytes_in_flight,
                 last_cum_ack, dup_ack_count, cwnd, Wmax, epoch_start,
                 in_recovery, congestion_last_sent, tx_count, rtt_samples>>
  /\ UNCHANGED <<config_vars, receiver_vars, net_s2c>>
  /\ UNCHANGED <<inflations, frx_cum>>

P2_EofTimeout ==
  /\ variant = "cubic" /\ spc = "eofwait"
  /\ retries' = retries + 1
  /\ spc' = IF retries + 1 < P2_EOF_ATTEMPTS THEN "eof" ELSE "done"
  /\ sev' = Event("eoftimeout", NONE, NONE, {}, "none")
  /\ UNCHANGED <<next_seq, sent_once, unacked, send_times, bytes_in_flight,
                 last_cum_ack, dup_ack_count, cwnd, Wmax, epoch_start,
                 in_recovery, congestion_last_sent, tx_count, rtt_samples>>
  /\ UNCHANGED <<config_vars, receiver_vars, net_s2c, net_c2s>>
  /\ UNCHANGED <<inflations, frx_cum>>

\* ------------------------------------------------------------ the session
Init ==
  /\ variant \in {"fixed", "cubic"}
  /\ window_size \in IF variant = "fixed" THEN SWS_Choices ELSE {0}
  /\ packets \in Files(SessionSegs)
  /\ spc = "listen"
  /\ next_seq = 0 /\ sent_once = {} /\ unacked = {} /\ send_times = << >>
  /\ bytes_in_flight = 0
  /\ last_cum_ack = 0 - 1 /\ dup_ack_count = 0
  /\ cwnd = DATA_SIZE /\ Wmax = DATA_SIZE * WMAX_INITIAL_MSS
  /\ epoch_start = "None"
  /\ in_recovery = FALSE /\ congestion_last_sent = NONE
  /\ retries = 0
  /\ tx_count = [s \in 0..(Len(packets) - 1) |-> 0]
  /\ rtt_samples = {} /\ inflations = 0 /\ frx_cum = NONE
  /\ sev = NoEvent
  /\ cpc = "request" /\ attempt = 0
  /\ receive_buffer = << >> /\ received_seqs = {} /\ next_expected_seq = 0
  /\ received_data = << >> /\ last_received_seq = NONE
  /\ rev = NoReceive
  /\ net_s2c = {} /\ net_c2s = {}
  /\ cap_s2c = MaxNet /\ cap_c2s = MaxNet

SenderStep ==
  \/ \E m \in ServerInbox, keep \in BOOLEAN : P1_Start(m, keep)
  \/ P1_Admit
  \/ \E m \in ServerInbox, keep \in BOOLEAN : P1_OnAck(m, keep)
  \/ \E cut \in 0..MaxSegs : P1_Timeout(cut)
  \/ P1_EofSend
  \/ \E m \in ServerInbox, keep \in BOOLEAN : P1_EofAck(m, keep)
  \/ P1_EofTimeout
  \/ \E m \in ServerInbox, keep \in BOOLEAN : P2_Start(m, keep)
  \/ P2_Admit
  \/ \E m \in ServerInbox, keep \in BOOLEAN :
        P2_OnAck(m, keep)
  \/ P2_Timeout
  \/ P2_EofSend
  \/ \E m \in ServerInbox, keep \in BOOLEAN : P2_EofAck(m, keep)
  \/ P2_EofTimeout

ReceiverStep ==
  \/ C_SendRequest
  \/ \E m \in ClientInbox, keep \in BOOLEAN : C_Response(m, keep)
  \/ C_RequestTimeout
  \/ \E m \in ClientInbox, keep \in BOOLEAN : C_Receive(m, keep)
  \/ C_IdleTimeout

Next == SenderStep \/ ReceiverStep

Spec == Init /\ [][Next]_vars


\* ------------------------------------------------------------ the sender alone
\* The sender against arbitrary input; what it sends is lost.
SenderInit ==
  /\ variant \in {"fixed", "cubic"}
  /\ window_size \in IF variant = "fixed" THEN SWS_Choices ELSE {0}
  /\ packets \in Files(MaxSegs)
  /\ spc = "listen"
  /\ next_seq = 0 /\ sent_once = {} /\ unacked = {} /\ send_times = << >>
  /\ bytes_in_flight = 0
  /\ last_cum_ack = 0 - 1 /\ dup_ack_count = 0
  /\ cwnd = DATA_SIZE /\ Wmax = DATA_SIZE * WMAX_INITIAL_MSS
  /\ epoch_start = "None"
  /\ in_recovery = FALSE /\ congestion_last_sent = NONE
  /\ retries = 0
  /\ tx_count = [s \in 0..(Len(packets) - 1) |-> 0]
  /\ rtt_samples = {} /\ inflations = 0 /\ frx_cum = NONE
  /\ sev = NoEvent
  /\ cpc = "off" /\ attempt = 0
  /\ receive_buffer = << >> /\ received_seqs = {} /\ next_expected_seq = 0
  /\ received_data = << >> /\ last_received_seq = NONE
  /\ rev = NoReceive
  /\ net_s2c = {} /\ net_c2s = {}
  /\ cap_s2c = 0 /\ cap_c2s = 0

SenderNext ==
  \/ \E m \in ServerInbox : P1_Start(m, TRUE)
  \/ P1_Admit
  \/ \E m \in ServerInbox : P1_OnAck(m, TRUE)
  \/ \E cut \in 0..MaxSegs : P1_Timeout(cut)
  \/ P1_EofSend
  \/ \E m \in ServerInbox : P1_EofAck(m, TRUE)
  \/ P1_EofTimeout
  \/ \E m \in ServerInbox : P2_Start(m, TRUE)
  \/ P2_Admit
  \/ \E m \in ServerInbox : P2_OnAck(m, TRUE)
  \/ P2_Timeout
  \/ P2_EofSend
  \/ \E m \in ServerInbox : P2_EofAck(m, TRUE)
  \/ P2_EofTimeout

SenderSpec == SenderInit /\ [][SenderNext]_vars

\* ------------------------------------------------------------ the receiver alone
\* The receiver against the datagrams of a session (ready, the data segments,
\* EOF at sequence N) in any order, any number of times; what it sends is lost.
ReceiverInit ==
  /\ variant = "fixed" /\ window_size = 0
  /\ packets \in Files(MaxSegs + 2)
  /\ spc = "off"
  /\ next_seq = 0 /\ sent_once = {} /\ unacked = {} /\ send_times = << >>
  /\ bytes_in_flight = 0
  /\ last_cum_ack = 0 - 1 /\ dup_ack_count = 0
  /\ cwnd = DATA_SIZE /\ Wmax = DATA_SIZE * WMAX_INITIAL_MSS
  /\ epoch_start = "None"
  /\ in_recovery = FALSE /\ congestion_last_sent = NONE
  /\ retries = 0
  /\ tx_count = [s \in 0..(Len(packets) - 1) |-> 0]
  /\ rtt_samples = {} /\ inflations = 0 /\ frx_cum = NONE
  /\ sev = NoEvent
  /\ cpc = "request" /\ attempt = 0
  /\ receive_buffer = << >> /\ received_seqs = {} /\ next_expected_seq = 0
  /\ received_data = << >> /\ last_received_seq = NONE
  /\ rev = NoReceive
  /\ net_s2c = {} /\ net_c2s = {}
  /\ cap_s2c = 0 /\ cap_c2s = 0

ReceiverNext ==
  \/ C_SendRequest
  \/ \E m \in ClientInbox : C_Response(m, TRUE)
  \/ C_RequestTimeout
  \/ \E m \in ClientInbox : C_Receive(m, TRUE)
  \/ C_IdleTimeout

ReceiverSpec == ReceiverInit /\ [][ReceiverNext]_vars



\* ------------------------------------------------------------ the ACK codec
\* The receiver's create_ack and the senders' parse_ack run back to back on
\* every cum_ack in 0..MaxSegs+1 and every list of at most two ranges
\* (start, end) over 0..MaxSegs, inverted ranges and (0, 0) included.  rev
\* holds the arguments of create_ack, net_c2s the datagram, sev what
\* parse_ack returned.
CodecRanges == (0..MaxSegs) \X (0..MaxSegs)
CodecBlockLists ==
  {<< >>} \cup {<<r>> : r \in CodecRanges} \cup
  {<<r, q>> : r \in CodecRanges, q \in CodecRanges}
CodecInit ==
  /\ variant = "fixed" /\ window_size = 0
  /\ packets = << >>
  /\ spc = "off"
  /\ next_seq = 0 /\ sent_once = {} /\ unacked = {} /\ send_times = << >>
  /\ bytes_in_flight = 0
  /\ last_cum_ack = 0 - 1 /\ dup_ack_count = 0
  /\ cwnd = DATA_SIZE /\ Wmax = DATA_SIZE * WMAX_INITIAL_MSS
  /\ epoch_start = "None"
  /\ in_recovery = FALSE /\ congestion_last_sent = NONE
  /\ retries = 0
  /\ tx_count = << >>
  /\ rtt_samples = {} /\ inflations = 0 /\ frx_cum = NONE
  /\ sev = NoEvent
  /\ cpc = "off" /\ attempt = 0
  /\ receive_buffer = << >> /\ received_seqs = {} /\ next_expected_seq = 0
  /\ received_data = << >> /\ last_received_seq = NONE
  /\ rev \in {Received("ack", NONE, c, b, FALSE) :
                c \in 0..(MaxSegs + 1), b \in CodecBlockLists}
  /\ net_s2c = {} /\ net_c2s = {}
  /\ cap_s2c = 0 /\ cap_c2s = 1

Codec_CreateAck ==
  /\ spc = "off" /\ cpc = "off"
  /\ net_c2s = {} /\ sev = NoEvent
  /\ net_c2s' = {create_ack(rev.cum, rev.blocks)}
  /\ UNCHANGED <<config_vars, sender_vars, receiver_vars, net_s2c>>

Codec_ParseAck(m) ==
  /\ spc = "off" /\ cpc = "off"
  /\ m \in net_c2s
  /\ net_c2s' = net_c2s \ {m}
  /\ sev' = [kind |-> "parse_ack", cum_ack |-> parse_ack(m)[1],
             blocks |-> parse_ack(m)[2]]
  /\ UNCHANGED <<next_seq, sent_once, unacked, send_times, bytes_in_flight,
                 last_cum_ack, dup_ack_count, cwnd, Wmax, epoch_start,
                 in_recovery, congestion_last_sent, retries, tx_count,
                 rtt_samples, inflations, frx_cum, spc>>
  /\ UNCHANGED <<config_vars, receiver_vars, net_s2c>>

CodecNext ==
  \/ Codec_CreateAck
  \/ \E m \in net_c2s : Codec_ParseAck(m)

CodecSpec == CodecInit /\ [][CodecNext]_vars


\* ============================================================ properties

\* C1: reconstruction fidelity.  Whenever the receiver has left its receive
\* loop, the output buffer is the concatenation of the sender's data-segment
\* payloads 0..N-1 (compared chunk by chunk: every chunk of a file is
\* non-empty and the chunks of the model are pairwise different).
C1_ReconstructionFidelity == cpc = "done" => received_data = packets

\* C2: in-flight accounting.  Between turns of the send loop bytes_in_flight
\* is the sum of packet_bytes over unacked, and it is never negative.
C2_InFlightAccounting ==
  /\ bytes_in_flight = SumBytes(unacked)
  /\ bytes_in_flight >= 0
\* An ACK has just released a segment by SACK above a segment that is still
\* unacknowledged and has been retransmitted.
C2_Witness ==
  /\ sev.kind = "ack"
  /\ \E u \in unacked, a \in sent_once \ unacked : u < a /\ tx_count[u] = MaxTx

\* C3: SACK validity.  Every range <<s, e>> of an ACK the receiver has just
\* emitted has s >= next_expected_seq and s <= e, and every x in s..e is
\* received and not yet delivered.
C3_SackValidity ==
  rev.kind \in {"data", "idle"} =>
    \A i \in 1..Len(rev.blocks) :
      LET s == rev.blocks[i][1]
          e == rev.blocks[i][2]
      IN  /\ s >= next_expected_seq
          /\ s <= e
          /\ \A x \in s..e : x \in received_seqs /\ x >= next_expected_seq

\* C4: a segment below next_expected_seq is rejected, so every sequence
\* number in the receive buffer and in the received-set is at least
\* next_expected_seq.
C4_StaleSegmentRejected ==
  \A x \in received_seqs \cup DOMAIN receive_buffer : x >= next_expected_seq

\* C5: unique-sample RTT.  Every RTT sample fed to update_rto_on_sample
\* belongs to a segment that had been transmitted exactly once.
C5_UniqueSampleRtt == \A p \in rtt_samples : p[2] = 1

C7_ShortDatagramDiscarded == spc # "crashed"

\* C8: liveness of the transfer needs the sender to keep running until every
\* data segment is acknowledged: a sender that has stopped on an error has
\* sent every segment and has none unacknowledged.
C8_SenderRunsToCompletion ==
  spc = "crashed" => (next_seq >= total_packets /\ unacked = {})

\* C9: EOF recognition.  The receiver ends the stream only on the segment at
\* sequence N.
C9_EofOnlyAtSentinel == rev.kind = "eof" => rev.seq = total_packets

\* C10: an ACK whose cum_ack is below the last cum_ack processed leaves
\* last_cum_ack and dup_ack_count unchanged.
C10_RegressingAckIgnored ==
  [][(spc = "recv" /\ sev'.kind = "ack" /\ sev'.cum # NONE /\ sev'.cum < last_cum_ack)
       => (last_cum_ack' = last_cum_ack /\ dup_ack_count' = dup_ack_count)]_vars

\* C11: EOF closure bound.  The budget of EOF transmissions (10 in the fixed
\* sender) is not extended by an ACK with cum_ack <= N: whenever the sender
\* leaves the wait for the EOF acknowledgement to transmit EOF once more, that
\* transmission has consumed one unit of the budget, so that EOF is
\* transmitted at most as often as the budget allows.
C11_EofBudgetConsumed ==
  [][(spc = "eofwait" /\ spc' = "eof") => retries' = retries + 1]_vars

C13_FixedWindowCap ==
  /\ [](variant = "fixed" => bytes_in_flight <= window_size)
  /\ [][(variant = "fixed" /\ next_seq' > next_seq) =>
          \A seq \in next_seq..(next_seq' - 1) :
             bytes_in_flight + SumBytes(next_seq..seq) <= window_size]_vars
\* Admission has sent a segment and stopped at the next one, which the full
\* window does not admit.
C13_Witness ==
  /\ variant = "fixed" /\ sev.kind = "admit"
  /\ 0 < next_seq /\ next_seq < total_packets
  /\ bytes_in_flight <= window_size
  /\ bytes_in_flight + packet_bytes(next_seq) > window_size

\* C14: receiver cursor monotonicity.  next_expected_seq never decreases
\* across arrivals and idle timeouts, and never exceeds total_segments + 1.
C14_CursorMonotone ==
  /\ [][next_expected_seq' >= next_expected_seq]_vars
  /\ [](next_expected_seq <= total_packets + 1)
\* The cursor has passed every data segment of a file of several segments,
\* a segment below the cursor has arrived again and has been stored, and an
\* idle timeout has followed.
C14_Witness ==
  /\ total_packets >= 2 /\ next_expected_seq = total_packets
  /\ received_seqs # {}
  /\ rev.kind = "idle"

\* C15: permutation independence at the receiver.  When the receive loop has
\* ended after every data segment 0..N-1 has arrived, in whatever order and
\* however often, and nothing but the sender's data and EOF segments has been
\* delivered, the output buffer is the payloads in sequence order, each
\* exactly once.
C15_PermutationIndependence ==
  ( /\ cpc = "done"
    /\ READY_MARKER \notin Range(received_data)
    /\ \A seq \in Segs : \/ seq < next_expected_seq
                         \/ seq \in received_seqs
                         \/ (rev.kind = "eof" /\ rev.seq = seq) )
  => received_data = packets

\* C16 as stated: ACK codec round trip.  For every cum_ack and every list of
\* at most two SACK ranges, parse_ack applied to the datagram made by
\* create_ack returns the same cum_ack and the same list of ranges.
C16_AckRoundTrip ==
  sev.kind = "parse_ack" => (sev.cum_ack = rev.cum /\ sev.blocks = rev.blocks)
\* C16 as amended: the round trip returns the same cum_ack and the same list
\* for every list of at most two ranges none of which is (0, 0).
C16_AckRoundTripNonZero ==
  (sev.kind = "parse_ack" /\ \A i \in 1..Len(rev.blocks) : rev.blocks[i] # <<0, 0>>)
    => (sev.cum_ack = rev.cum /\ sev.blocks = rev.blocks)
\* A list of two ranges, each with one zero bound, has made the round trip
\* with cum_ack 0.
C16_Witness ==
  /\ sev.kind = "parse_ack"
  /\ rev.cum = 0
  /\ rev.blocks = << <<0, 1>>, <<1, 0>> >>
  /\ sev.blocks = rev.blocks

\* C17: duplicate-ACK threshold in the CUBIC sender.  Outside recovery and
\* with unacked non-empty, a duplicate ACK that brings the duplicate count
\* below 3 causes no fast retransmit and no congestion reaction; the one that
\* brings it to 3 causes exactly one fast retransmit, of min(unacked), and
\* one non-severe congestion reaction (W_max = cwnd, cwnd halved, recovery
\* entered).  Every duplicate ACK received in recovery only inflates cwnd by
\* DATA_SIZE: no retransmission, no congestion reaction.
C17_DupAckThreshold ==
  [][(variant = "cubic" /\ spc = "recv" /\ sev'.kind = "ack"
        /\ sev'.cum = last_cum_ack)
     => IF in_recovery
        THEN /\ sev'.frx = NONE /\ tx_count' = tx_count
             /\ sev'.reaction = "none" /\ Wmax' = Wmax
             /\ cwnd' = cwnd + DATA_SIZE /\ in_recovery'
        ELSE IF unacked = {} THEN TRUE
        ELSE IF dup_ack_count + 1 < DUP_ACK_THRESHOLD
        THEN /\ sev'.frx = NONE /\ tx_count' = tx_count
             /\ sev'.reaction # "mild" /\ Wmax' = Wmax /\ ~in_recovery'
        ELSE /\ sev'.frx = Min(unacked)
             /\ tx_count' = Bump(tx_count, {Min(unacked)})
             /\ sev'.reaction = "mild"
             /\ Wmax' = cwnd /\ cwnd' = cwnd \div 2
             /\ in_recovery' /\ dup_ack_count' = 0]_vars
\* The seventh duplicate ACK in a row since the fast retransmit (the tenth
\* since the cum_ack was first seen) has been processed in recovery.
C17_Witness ==
  /\ variant = "cubic" /\ sev.kind = "ack"
  /\ in_recovery /\ unacked # {}
  /\ dup_ack_count = 7 /\ inflations = 7
  /\ \E seq \in unacked : tx_count[seq] = 2

\* C18: handshake retry bound.  The receiver sends at most 5 request
\* datagrams (a request is sent, or awaited, only as attempt number
\* attempt + 1 <= 5).  It gives up only on a timeout of the fifth attempt,
\* with every attempt timed out; it then stays terminated, never having
\* entered the receive loop, with nothing received and nothing written.  A
\* response that arrives during a wait takes it into the receive loop at
\* once.
C18_HandshakeRetryBound ==
  /\ [](cpc \in {"request", "reqwait"} => attempt < MAX_REQUEST_RETRIES)
  /\ [](cpc = "failed" =>
          /\ attempt = MAX_REQUEST_RETRIES /\ rev.kind = "reqtimeout"
          /\ received_data = << >> /\ receive_buffer = << >>
          /\ next_expected_seq = 0)
  /\ [][cpc = "failed" => UNCHANGED receiver_vars]_vars
  /\ [][(cpc = "reqwait" /\ rev'.kind = "response") => cpc' = "loop"]_vars
\* All five attempts have timed out and the receiver has given up.
C18_Witness ==
  /\ cpc = "failed" /\ attempt = MAX_REQUEST_RETRIES
  /\ rev.kind = "reqtimeout"

\* C19: zero-byte file.  When the source file is empty (N = 0) the sender
\* transmits no data segment and goes from admission directly to sending the
\* EOF segment at sequence 0, and the receiver terminates with an empty
\* output buffer.
C19_ZeroByteFile ==
  total_packets = 0 =>
    /\ sent_once = {} /\ next_seq = 0 /\ spc # "recv"
    /\ net_s2c \subseteq {create_packet(0, READY_MARKER), create_packet(0, EOF_MARKER)}
    /\ cpc = "done" => received_data = << >>

\* C20: recovery suppresses congestion reactions.  No step of the CUBIC
\* sender that starts and ends in recovery changes W_max or reduces cwnd.
C20_RecoverySuppressesReaction ==
  [][(variant = "cubic" /\ in_recovery /\ in_recovery')
       => (Wmax' = Wmax /\ cwnd' >= cwnd)]_vars

\* C21: one fast retransmit per loss event in the fixed-window sender.  Once
\* a fast retransmit has fired for duplicate ACKs of cum_ack = k, no fast
\* retransmit fires again while every ACK processed since carried
\* cum_ack = k.
C21_OneFastRetransmitPerLoss ==
  [][(variant = "fixed" /\ spc = "recv" /\ sev'.kind = "ack" /\ sev'.frx # NONE)
       => frx_cum # sev'.cum]_vars

C23_GrowthSuppressedInRecovery ==
  [][(variant = "cubic" /\ spc = "recv" /\ sev'.kind = "ack" /\ in_recovery)
       => /\ sev'.reaction # "growth"
          /\ IF in_recovery'
             THEN /\ epoch_start' = epoch_start
                  /\ cwnd' = cwnd + (IF sev'.cum = last_cum_ack THEN DATA_SIZE ELSE 0)
             ELSE /\ cwnd' = cwnd
                  /\ epoch_start = "None" /\ epoch_start' = "now"]_vars
\* The ACK that ended a recovery with inflated window has just been
\* processed: the epoch is started and no growth has been applied.
C23_Witness ==
  /\ variant = "cubic" /\ sev.kind = "ack" /\ sev.reaction = "none"
  /\ ~in_recovery /\ congestion_last_sent # NONE
  /\ sev.cum > congestion_last_sent
  /\ epoch_start = "now" /\ inflations >= 1
  /\ last_cum_ack = sev.cum /\ dup_ack_count = 0
  /\ cwnd > DATA_SIZE

C26_SendTimesKeys ==
  /\ [](/\ Range(send_times) = unacked
        /\ Len(send_times) = Cardinality(unacked))
  /\ [][\A seq \in DOMAIN tx_count :
          (tx_count[seq] >= 1 /\ tx_count'[seq] > tx_count[seq])
            => seq \in unacked]_vars
\* A retransmitted segment has been released by a later ACK while another
\* segment is still outstanding with its send time.
C26_Witness ==
  /\ spc = "admit" /\ sev.kind = "ack"
  /\ \E seq \in sent_once \ unacked : tx_count[seq] >= 2
  /\ unacked # {} /\ Range(send_times) = unacked

\* C27: handshake/data separation.  The ready datagram (sequence 0, payload
\* "ACK") is never stored in receive_buffer nor appended to received_data:
\* for a non-empty file, what the receiver appends for sequence 0 is the
\* sender's segment 0.
C27_ReadyNeverData ==
  Len(packets) >= 1 =>
    /\ \A seq \in DOMAIN receive_buffer : receive_buffer[seq] # READY_MARKER
    /\ Len(received_data) >= 1 => received_data[1] = packets[1]

=============================================================================
